---- MODULE Spec2Model ----
(***************************************************************************)
(* A model of the imgflip client library (src/src/lib.rs): the caption     *)
(* payload builders, the form encoding of an authenticated caption         *)
(* request, the HTTP round trip of memes() and caption_image(), and the    *)
(* decoding of the success/failure response envelope.                      *)
(*                                                                         *)
(* Option<T> is modelled as a sequence: None is <<>>, Some(v) is <<v>>.    *)
(***************************************************************************)
EXTENDS Integers, Sequences, FiniteSets, TLC

VARIABLES
    boxb,       \* Option<CaptionBoxBuilder>: the live caption box builder
    boxArg,     \* the text given to CaptionBoxBuilder::new
    boxLog,     \* the setter calls made on boxb since new, in call order
    builtBox,   \* Option<CaptionBox>: the value of the last CaptionBoxBuilder::build
    reqb,       \* Option<CaptionBoxesRequestBuilder>: the live request builder
    reqArg,     \* the template_id given to CaptionBoxesRequestBuilder::new
    reqLog,     \* the setter calls made on reqb since new, in call order
    builtReq,   \* Option<CaptionBoxesRequest>: the value of the last build
    client,     \* Option<Client>: the anonymous client
    account,    \* Option<AccountClient>: username and password of the account client
    newArgs,    \* the arguments of the AccountClient::new that made `account`
    pc,         \* where the current call's future is suspended
    op,         \* the operation of the current (or last) call
    arg,        \* Option<CaptionBoxesRequest>: the argument of the current call
    wire,       \* Option<request on the wire>: what send() handed to the transport
    resp,       \* Option<response>: status and body the server answered with
    result,     \* Option<Result>: what the last call returned
    events,     \* the steps the current (or last) call has taken, in order
    nresults    \* how many Results the current (or last) call has yielded

builderVars == <<boxb, boxArg, boxLog, builtBox, reqb, reqArg, reqLog, builtReq>>
clientVars == <<client, account, newArgs>>
callVars == <<pc, op, arg, wire, resp, result, events, nresults>>
vars == <<boxb, boxArg, boxLog, builtBox, reqb, reqArg, reqLog, builtReq,
          client, account, newArgs, pc, op, arg, wire, resp, result, events, nresults>>

None == <<>>
Some(v) == <<v>>

(***************************************************************************)
(* Bounds of the model.                                                    *)
(***************************************************************************)
MaxBoxSetterCalls == 3
MaxReqSetterCalls == 4
MaxBoxes == 2

(***************************************************************************)
(* Input values.                                                           *)
(***************************************************************************)
Texts == {"hello", ""}
Colors == {"#ff0000", "#0000ff"}
Dimensions == {<<1, 2, 30, 40>>, <<5, 6, 70, 80>>}
TemplateIds == {"61580"}
Fonts == {"Impact", "Arial"}
FontSizes == {42, 10}
UserNames == {"alice", "bob"}
Passwords == {"hunter2", "bob"}

(***************************************************************************)
(* CaptionBoxBuilder (lib.rs 112-154).                                     *)
(***************************************************************************)
CaptionBoxBuilder_new(text) ==
    [text |-> text, x |-> None, y |-> None, width |-> None, height |-> None,
     color |-> None, outline_color |-> None]

CaptionBoxBuilder_dimension_swapped(b, x, y, width, height) ==
    [b EXCEPT !.x = Some(y), !.y = Some(x),
              !.width = Some(width), !.height = Some(height)]

CaptionBoxBuilder_dimension(b, x, y, width, height) ==
    [b EXCEPT !.x = Some(x), !.y = Some(y),
              !.width = Some(width), !.height = Some(height)]

CaptionBoxBuilder_color(b, color) ==
    [b EXCEPT !.color = Some(color)]

CaptionBoxBuilder_outline_color(b, outline_color) ==
    [b EXCEPT !.outline_color = Some(outline_color)]

CaptionBoxBuilder_build(b) ==
    [text |-> b.text, x |-> b.x, y |-> b.y, width |-> b.width, height |-> b.height,
     color |-> b.color, outline_color |-> b.outline_color]

(***************************************************************************)
(* CaptionBoxesRequestBuilder (lib.rs 173-206).                            *)
(***************************************************************************)
CaptionBoxesRequestBuilder_new(template_id) ==
    [template_id |-> template_id, font |-> None, max_font_size |-> None,
     boxes |-> <<>>]

CaptionBoxesRequestBuilder_font(b, font) ==
    [b EXCEPT !.font = Some(font)]

CaptionBoxesRequestBuilder_max_font_size(b, max_font_size) ==
    [b EXCEPT !.max_font_size = Some(max_font_size)]

CaptionBoxesRequestBuilder_caption_box(b, caption_box) ==
    [b EXCEPT !.boxes = Append(@, caption_box)]

CaptionBoxesRequestBuilder_build(b) ==
    [template_id |-> b.template_id, font |-> b.font,
     max_font_size |-> b.max_font_size, boxes |-> b.boxes]

(***************************************************************************)
(* Caption boxes a caller can hold: CaptionBox has private fields, so      *)
(* every value comes out of the builder (x, y, width, height are set       *)
(* together or not at all).                                                *)
(***************************************************************************)
Box1 == CaptionBoxBuilder_build(CaptionBoxBuilder_new("hello"))
Box2 ==
    CaptionBoxBuilder_build(
        CaptionBoxBuilder_color(
            CaptionBoxBuilder_dimension(CaptionBoxBuilder_new(""), 1, 2, 30, 40),
            "#ff0000"))
Box3 ==
    CaptionBoxBuilder_build(
        CaptionBoxBuilder_outline_color(CaptionBoxBuilder_new("hello"), "#0000ff"))
SampleBoxes == {Box1, Box2, Box3}

(***************************************************************************)
(* The requests a caller can pass to caption_image: the fields of          *)
(* CaptionBoxesRequest are private, so every value comes out of            *)
(* CaptionBoxesRequestBuilder.                                             *)
(***************************************************************************)
RECURSIVE WithBoxes(_, _)
WithBoxes(b, boxes) ==
    IF boxes = <<>> THEN b
    ELSE WithBoxes(CaptionBoxesRequestBuilder_caption_box(b, Head(boxes)), Tail(boxes))

WithFont(b, font) ==
    IF font = None THEN b ELSE CaptionBoxesRequestBuilder_font(b, font[1])

WithMaxFontSize(b, n) ==
    IF n = None THEN b ELSE CaptionBoxesRequestBuilder_max_font_size(b, n[1])

BoxLists == UNION {[1..n -> SampleBoxes] : n \in 0..MaxBoxes}

Requests ==
    {CaptionBoxesRequestBuilder_build(
        WithBoxes(
            WithMaxFontSize(
                WithFont(CaptionBoxesRequestBuilder_new(t), f), m), boxes)) :
        t \in TemplateIds,
        f \in {None} \cup {Some(x) : x \in Fonts},
        m \in {None} \cup {Some(x) : x \in {42}},
        boxes \in BoxLists}

(***************************************************************************)
(* Form encoding: serde_qs::to_string over the derived Serialize           *)
(* implementations.  The encoded body is the sequence of its key=value     *)
(* pairs in the order they are written; a key is the path of its           *)
(* segments, <<"boxes", "0", "text">> standing for boxes[0][text].         *)
(***************************************************************************)
Digits == <<"0", "1", "2", "3", "4", "5", "6", "7", "8", "9">>

\* The decimal text of a u32 (Display for integers).
RECURSIVE to_string_u32(_)
to_string_u32(n) ==
    IF n < 10 THEN Digits[n + 1]
    ELSE to_string_u32(n \div 10) \o Digits[(n % 10) + 1]

\* #[serde(rename_all = "lowercase")] on CaptionFont.
Serialize_CaptionFont(font) ==
    CASE font = "Impact" -> "impact"
      [] font = "Arial" -> "arial"

Serialize_String(key, v) == << <<key, v>> >>

Serialize_u32(key, v) == << <<key, to_string_u32(v)>> >>

\* A faulty variant: None written as a key with an empty value.
Serialize_Option_empty_value(key, o, kind) ==
    IF o = None THEN << <<key, "">> >>
    ELSE CASE kind = "u32" -> Serialize_u32(key, o[1])
           [] kind = "String" -> Serialize_String(key, o[1])
           [] kind = "CaptionFont" -> Serialize_String(key, Serialize_CaptionFont(o[1]))

\* serialize_none writes nothing; serialize_some writes the value.
Serialize_Option(key, o, kind) ==
    IF o = None THEN <<>>
    ELSE CASE kind = "u32" -> Serialize_u32(key, o[1])
           [] kind = "String" -> Serialize_String(key, o[1])
           [] kind = "CaptionFont" -> Serialize_String(key, Serialize_CaptionFont(o[1]))

Serialize_CaptionBox(key, b) ==
    Serialize_String(key \o <<"text">>, b.text)
    \o Serialize_Option(key \o <<"x">>, b.x, "u32")
    \o Serialize_Option(key \o <<"y">>, b.y, "u32")
    \o Serialize_Option(key \o <<"width">>, b.width, "u32")
    \o Serialize_Option(key \o <<"height">>, b.height, "u32")
    \o Serialize_Option(key \o <<"color">>, b.color, "String")
    \o Serialize_Option(key \o <<"outline_color">>, b.outline_color, "String")

RECURSIVE Serialize_Vec_from(_, _, _)
Serialize_Vec_from(key, boxes, i) ==
    IF i > Len(boxes) THEN <<>>
    ELSE Serialize_CaptionBox(key \o <<to_string_u32(i - 1)>>, boxes[i])
         \o Serialize_Vec_from(key, boxes, i + 1)

\* A faulty variant: the boxes written last to first.
RECURSIVE Serialize_Vec_reversed_from(_, _, _)
Serialize_Vec_reversed_from(key, boxes, i) ==
    IF i > Len(boxes) THEN <<>>
    ELSE Serialize_CaptionBox(key \o <<to_string_u32(i - 1)>>, boxes[Len(boxes) + 1 - i])
         \o Serialize_Vec_reversed_from(key, boxes, i + 1)

Serialize_Vec_reversed(key, boxes) == Serialize_Vec_reversed_from(key, boxes, 1)

\* A sequence is written element by element under the keys key[0], key[1], ...
Serialize_Vec(key, boxes) == Serialize_Vec_from(key, boxes, 1)

Serialize_CaptionBoxesRequest(key, r) ==
    Serialize_String(key \o <<"template_id">>, r.template_id)
    \o Serialize_Option(key \o <<"font">>, r.font, "CaptionFont")
    \o Serialize_Option(key \o <<"max_font_size">>, r.max_font_size, "u32")
    \o Serialize_Vec(key \o <<"boxes">>, r.boxes)

\* A faulty variant: the request nested under its field name instead of flattened.
Serialize_RequestAuthWrapper_nested(w) ==
    Serialize_CaptionBoxesRequest(<<"request">>, w.request)
    \o Serialize_String(<<"username">>, w.username)
    \o Serialize_String(<<"password">>, w.password)

\* #[serde(flatten)] request: its fields are written at the wrapper's level.
Serialize_RequestAuthWrapper(w) ==
    Serialize_CaptionBoxesRequest(<<>>, w.request)
    \o Serialize_String(<<"username">>, w.username)
    \o Serialize_String(<<"password">>, w.password)

\* serde_qs::to_string returns a Result: the outcomes the call site handles.
serde_qs_to_string(w) ==
    {[ok |-> TRUE, body |-> Serialize_RequestAuthWrapper(w)],
     [ok |-> FALSE, body |-> <<>>]}

RequestAuthWrapper(request, username, password) ==
    [request |-> request, username |-> username, password |-> password]

(***************************************************************************)
(* Responses.  A response is a status and a body; a body is either not a   *)
(* JSON object at all or an object whose fields `success`, `data` and      *)
(* `error_message` are each absent (None) or present with a JSON value.    *)
(* Fields the envelope does not name are ignored by the decoder and are    *)
(* left out.                                                               *)
(***************************************************************************)
Statuses == {200, 300, 404, 500}

AbsoluteUrls ==
    {"https://i.imgflip.com/1ur9b0.jpg", "https://i.imgflip.com/30b1gx.jpg",
     "https://imgflip.com/i/1", "https://imgflip.com"}

\* Url::parse (the Deserialize of url::Url): a relative reference is an
\* error, and an absolute URL with an empty path gets the path "/".
Url_parse(str) ==
    IF str \notin AbsoluteUrls THEN None
    ELSE IF str = "https://imgflip.com" THEN Some("https://imgflip.com/")
    ELSE Some(str)

\* Deserialize of u32 from a JSON integer: a negative number is an error
\* (the integers of the model stay far below 2^32).
Deserialize_u32(n) == IF n >= 0 THEN Some(n) ELSE None

JsonTemplate(id, name, url, width) ==
    [id |-> id, name |-> name, url |-> url, width |-> width, height |-> 800,
     box_count |-> 3]

JsonMemesLists ==
    {<<>>,
     <<JsonTemplate("112126428", "Distracted Boyfriend", "https://i.imgflip.com/1ur9b0.jpg", 1200),
       JsonTemplate("181913649", "Drake Hotline Bling", "https://imgflip.com", 1200)>>,
     <<JsonTemplate("112126428", "Distracted Boyfriend", "https://i.imgflip.com/1ur9b0.jpg", 1200),
       JsonTemplate("87743020", "Two Buttons", "i.imgflip.com/1g8my4.jpg", 600)>>,
     <<JsonTemplate("61580", "Too Damn High", "https://i.imgflip.com/30b1gx.jpg", -1)>>}

\* A JSON value of the `data` field: null, or an object with some of the
\* fields url, page_url and memes.
JsonData(object, url, page_url, memes) ==
    [object |-> object, url |-> url, page_url |-> page_url, memes |-> memes]

JsonDatas ==
    {JsonData(FALSE, None, None, None),
     JsonData(TRUE, None, None, None),
     JsonData(TRUE, Some("https://i.imgflip.com/1ur9b0.jpg"), Some("https://imgflip.com/i/1"), None),
     JsonData(TRUE, Some("https://imgflip.com"), Some("https://imgflip.com/i/1"), None),
     JsonData(TRUE, Some("https://i.imgflip.com/1ur9b0.jpg"), Some("/i/1"), None),
     JsonData(TRUE, Some("https://i.imgflip.com/1ur9b0.jpg"), None, None)}
    \cup {JsonData(TRUE, None, None, Some(l)) : l \in JsonMemesLists}

\* JSON values of `success`: the booleans and a number.
JsonSuccesses == {"true", "false", "1"}

\* JSON values of `error_message`: strings and null.
JsonString(str) == [string |-> TRUE, str |-> str]
JsonNull == [string |-> FALSE, str |-> ""]
JsonErrorMessages == {JsonString("No texts specified"), JsonString(""), JsonNull}

JsonBody(object, success, data, error_message) ==
    [object |-> object, success |-> success, data |-> data,
     error_message |-> error_message]

Bodies ==
    {JsonBody(FALSE, None, None, None)}
    \cup {JsonBody(TRUE, s, d, e) :
            s \in {None} \cup {Some(x) : x \in JsonSuccesses},
            d \in {None} \cup {Some(x) : x \in JsonDatas},
            e \in {None} \cup {Some(x) : x \in JsonErrorMessages}}

(***************************************************************************)
(* Deserialize (derived) of the response types.  A deserializer returns    *)
(* None when the JSON value does not have the type's shape.                *)
(***************************************************************************)
Deserialize_MemeTemplate(j) ==
    IF Url_parse(j.url) = None
       \/ Deserialize_u32(j.width) = None
       \/ Deserialize_u32(j.height) = None
       \/ Deserialize_u32(j.box_count) = None
    THEN None
    ELSE Some([id |-> j.id, name |-> j.name, url |-> Url_parse(j.url)[1],
               width |-> j.width, height |-> j.height, box_count |-> j.box_count])

Deserialize_MemeTemplatesData(d) ==
    IF ~d.object \/ d.memes = None THEN None
    ELSE IF \E i \in 1..Len(d.memes[1]) : Deserialize_MemeTemplate(d.memes[1][i]) = None
    THEN None
    ELSE Some([type |-> "MemeTemplatesData",
               memes |-> [i \in 1..Len(d.memes[1]) |->
                            Deserialize_MemeTemplate(d.memes[1][i])[1]],
               url |-> "", page_url |-> ""])

Deserialize_CaptionImageResponse(d) ==
    IF ~d.object \/ d.url = None \/ d.page_url = None THEN None
    ELSE IF Url_parse(d.url[1]) = None \/ Url_parse(d.page_url[1]) = None THEN None
    ELSE Some([type |-> "CaptionImageResponse", memes |-> <<>>,
               url |-> Url_parse(d.url[1])[1],
               page_url |-> Url_parse(d.page_url[1])[1]])

\* The payload type T of Response<T>, by name.
Deserialize_T(T, d) ==
    CASE T = "MemeTemplatesData" -> Deserialize_MemeTemplatesData(d)
      [] T = "CaptionImageResponse" -> Deserialize_CaptionImageResponse(d)

Deserialize_bool(j) ==
    CASE j = "true" -> Some(TRUE)
      [] j = "false" -> Some(FALSE)
      [] OTHER -> None

\* The payload slot of a value that carries no payload.
NoData == [type |-> "none", memes |-> <<>>, url |-> "", page_url |-> ""]

SuccessResponse(success, data) ==
    [variant |-> "SuccessResponse", success |-> success, data |-> data,
     error_message |-> ""]

FailureResponse(success, error_message) ==
    [variant |-> "FailureResponse", success |-> success, data |-> NoData,
     error_message |-> error_message]

\* The two struct variants of Response<T>, each from the fields it names.
Deserialize_SuccessResponse(T, body) ==
    IF body.success = None \/ body.data = None THEN None
    ELSE IF Deserialize_bool(body.success[1]) = None
            \/ Deserialize_T(T, body.data[1]) = None THEN None
    ELSE Some(SuccessResponse(Deserialize_bool(body.success[1])[1],
                              Deserialize_T(T, body.data[1])[1]))

Deserialize_FailureResponse(body) ==
    IF body.success = None \/ body.error_message = None THEN None
    ELSE IF Deserialize_bool(body.success[1]) = None
            \/ ~body.error_message[1].string THEN None
    ELSE Some(FailureResponse(Deserialize_bool(body.success[1])[1],
                              body.error_message[1].str))

\* A faulty variant: the variant chosen by the `success` flag.
Deserialize_Response_by_flag(T, body) ==
    IF ~body.object \/ body.success = None THEN None
    ELSE IF body.success[1] = "true" THEN Deserialize_SuccessResponse(T, body)
    ELSE Deserialize_FailureResponse(body)

\* A faulty variant: a missing payload defaulted (#[serde(default)] on data).
Deserialize_Response_default_data(T, body) ==
    IF ~body.object THEN None
    ELSE IF Deserialize_SuccessResponse(T, body) # None
    THEN Deserialize_SuccessResponse(T, body)
    ELSE IF Deserialize_FailureResponse(body) # None
    THEN Deserialize_FailureResponse(body)
    ELSE IF body.success # None /\ body.data = None
    THEN Some(SuccessResponse(TRUE, NoData))
    ELSE None

\* #[serde(untagged)]: the variants are tried in declaration order and the
\* first that deserializes is the value; none is an error.
Deserialize_Response(T, body) ==
    IF ~body.object THEN None
    ELSE IF Deserialize_SuccessResponse(T, body) # None
    THEN Deserialize_SuccessResponse(T, body)
    ELSE Deserialize_FailureResponse(body)

(***************************************************************************)
(* Result<T> with the crate's Error.  `cause` tells the reqwest errors     *)
(* apart: "send", "status", "body" or "decode".                            *)
(***************************************************************************)
Ok(data) == [kind |-> "Ok", data |-> data, message |-> "", cause |-> ""]
Error_Reqwest(cause) == [kind |-> "Reqwest", data |-> NoData, message |-> "", cause |-> cause]
Error_SerdeQs == [kind |-> "SerdeQs", data |-> NoData, message |-> "", cause |-> ""]
Error_ApiError(message) ==
    [kind |-> "ApiError", data |-> NoData, message |-> message, cause |-> ""]

\* A faulty variant: the server's message replaced by a fixed text.
Response_convert_fixed_message(r) ==
    IF r.variant = "SuccessResponse" THEN Ok(r.data)
    ELSE Error_ApiError("API error")

Response_convert(r) ==
    IF r.variant = "SuccessResponse" THEN Ok(r.data)
    ELSE Error_ApiError(r.error_message)

\* A faulty variant: only server errors turned into an error.
error_for_status_server_only(status) == status >= 500 /\ status <= 599

\* Response::error_for_status: an error for a client or server error status.
error_for_status(status) ==
    (status >= 400 /\ status <= 499) \/ (status >= 500 /\ status <= 599)

\* .map(|r| r.memes) in client_memes: the Vec<MemeTemplate> of an Ok value.
Result_map_memes(r) ==
    IF r.kind = "Ok"
    THEN Ok([type |-> "Vec<MemeTemplate>", memes |-> r.data.memes,
             url |-> "", page_url |-> ""])
    ELSE r

PayloadType(operation) ==
    IF operation = "AccountClient::caption_image" THEN "CaptionImageResponse"
    ELSE "MemeTemplatesData"

(***************************************************************************)
(* The caller's use of the builders.  Each builder method consumes the     *)
(* builder and returns the updated one; build consumes it for good.        *)
(***************************************************************************)
BoxCall(name, n, s) == [op |-> name, n |-> n, s |-> s]

BoxNew ==
    /\ boxb = None /\ builtBox = None
    /\ reqb = None /\ builtReq = None
    /\ \E text \in Texts :
        /\ boxb' = Some(CaptionBoxBuilder_new(text))
        /\ boxArg' = text
    /\ boxLog' = <<>>
    /\ UNCHANGED <<builtBox, reqb, reqArg, reqLog, builtReq>>
    /\ UNCHANGED <<clientVars, callVars>>

BoxDimension ==
    /\ boxb # None
    /\ Len(boxLog) < MaxBoxSetterCalls
    /\ \E d \in Dimensions :
        /\ boxb' = Some(CaptionBoxBuilder_dimension(boxb[1], d[1], d[2], d[3], d[4]))
        /\ boxLog' = Append(boxLog, BoxCall("dimension", d, ""))
    /\ UNCHANGED <<boxArg, builtBox, reqb, reqArg, reqLog, builtReq>>
    /\ UNCHANGED <<clientVars, callVars>>

BoxColor ==
    /\ boxb # None
    /\ Len(boxLog) < MaxBoxSetterCalls
    /\ \E c \in Colors :
        /\ boxb' = Some(CaptionBoxBuilder_color(boxb[1], c))
        /\ boxLog' = Append(boxLog, BoxCall("color", <<>>, c))
    /\ UNCHANGED <<boxArg, builtBox, reqb, reqArg, reqLog, builtReq>>
    /\ UNCHANGED <<clientVars, callVars>>

BoxOutlineColor ==
    /\ boxb # None
    /\ Len(boxLog) < MaxBoxSetterCalls
    /\ \E c \in Colors :
        /\ boxb' = Some(CaptionBoxBuilder_outline_color(boxb[1], c))
        /\ boxLog' = Append(boxLog, BoxCall("outline_color", <<>>, c))
    /\ UNCHANGED <<boxArg, builtBox, reqb, reqArg, reqLog, builtReq>>
    /\ UNCHANGED <<clientVars, callVars>>

BoxBuild ==
    /\ boxb # None
    /\ builtBox' = Some(CaptionBoxBuilder_build(boxb[1]))
    /\ boxb' = None
    /\ UNCHANGED <<boxArg, boxLog, reqb, reqArg, reqLog, builtReq>>
    /\ UNCHANGED <<clientVars, callVars>>

ReqCall(name, n, s, b) == [op |-> name, n |-> n, s |-> s, box |-> b]

ReqNew ==
    /\ reqb = None /\ builtReq = None
    /\ boxb = None /\ builtBox = None
    /\ \E template_id \in TemplateIds :
        /\ reqb' = Some(CaptionBoxesRequestBuilder_new(template_id))
        /\ reqArg' = template_id
    /\ reqLog' = <<>>
    /\ UNCHANGED <<builtReq, boxb, boxArg, boxLog, builtBox>>
    /\ UNCHANGED <<clientVars, callVars>>

ReqFont ==
    /\ reqb # None
    /\ Len(reqLog) < MaxReqSetterCalls
    /\ \E f \in Fonts :
        /\ reqb' = Some(CaptionBoxesRequestBuilder_font(reqb[1], f))
        /\ reqLog' = Append(reqLog, ReqCall("font", 0, f, Box1))
    /\ UNCHANGED <<reqArg, builtReq, boxb, boxArg, boxLog, builtBox>>
    /\ UNCHANGED <<clientVars, callVars>>

ReqMaxFontSize ==
    /\ reqb # None
    /\ Len(reqLog) < MaxReqSetterCalls
    /\ \E n \in FontSizes :
        /\ reqb' = Some(CaptionBoxesRequestBuilder_max_font_size(reqb[1], n))
        /\ reqLog' = Append(reqLog, ReqCall("max_font_size", n, "", Box1))
    /\ UNCHANGED <<reqArg, builtReq, boxb, boxArg, boxLog, builtBox>>
    /\ UNCHANGED <<clientVars, callVars>>

ReqCaptionBox ==
    /\ reqb # None
    /\ Len(reqLog) < MaxReqSetterCalls
    /\ \E b \in SampleBoxes :
        /\ reqb' = Some(CaptionBoxesRequestBuilder_caption_box(reqb[1], b))
        /\ reqLog' = Append(reqLog, ReqCall("caption_box", 0, "", b))
    /\ UNCHANGED <<reqArg, builtReq, boxb, boxArg, boxLog, builtBox>>
    /\ UNCHANGED <<clientVars, callVars>>

ReqBuild ==
    /\ reqb # None
    /\ builtReq' = Some(CaptionBoxesRequestBuilder_build(reqb[1]))
    /\ reqb' = None
    /\ UNCHANGED <<reqArg, reqLog, boxb, boxArg, boxLog, builtBox>>
    /\ UNCHANGED <<clientVars, callVars>>

(***************************************************************************)
(* The clients.  A call borrows its client, so a client is constructed     *)
(* only while no call is pending.                                          *)
(***************************************************************************)
Client_new ==
    /\ pc = "idle"
    /\ client = None
    /\ client' = Some("reqwest::Client")
    /\ UNCHANGED <<account, newArgs>>
    /\ UNCHANGED <<builderVars, callVars>>

AccountClient_new ==
    /\ pc = "idle"
    /\ \E username \in UserNames, password \in Passwords :
        /\ account' = Some([username |-> username, password |-> password])
        /\ newArgs' = Some(<<username, password>>)
        /\ account' # account
    /\ UNCHANGED client
    /\ UNCHANGED <<builderVars, callVars>>

(***************************************************************************)
(* A call.  Calling an async fn makes a future that has not run yet        *)
(* ("unresumed"); the future then runs from one await to the next:         *)
(* "awaitSend" is send().await, "awaitJson" is json().await.  A `?` on an  *)
(* Err returns from the call at once.  `events` records the steps taken.   *)
(***************************************************************************)
BeginCall(operation, argument) ==
    /\ pc = "idle"
    /\ pc' = "unresumed"
    /\ op' = operation
    /\ arg' = argument
    /\ wire' = None /\ resp' = None /\ result' = None
    /\ events' = <<>> /\ nresults' = 0
    /\ UNCHANGED <<builderVars, clientVars>>

Return(r, steps) ==
    /\ pc' = "idle"
    /\ result' = Some(r)
    /\ nresults' = nresults + 1
    /\ events' = events \o steps
    /\ arg' = None /\ wire' = None

Client_memes ==
    /\ client # None
    /\ BeginCall("Client::memes", None)

AccountClient_memes ==
    /\ account # None
    /\ BeginCall("AccountClient::memes", None)

AccountClient_caption_image ==
    /\ account # None
    /\ \E image_caption \in Requests :
        BeginCall("AccountClient::caption_image", Some(image_caption))

Request(method, url, content_type, body) ==
    [method |-> method, url |-> url, content_type |-> content_type, body |-> body]

\* client_memes up to send().await: the GET is handed to the transport.
client_memes_send ==
    /\ pc = "unresumed"
    /\ op \in {"Client::memes", "AccountClient::memes"}
    /\ wire' = Some(Request("GET", "https://api.imgflip.com/get_memes", None, <<>>))
    /\ events' = events \o <<"send">>
    /\ pc' = "awaitSend"
    /\ UNCHANGED <<op, arg, resp, result, nresults>>
    /\ UNCHANGED <<builderVars, clientVars>>

\* A faulty variant: the request is sent before the encoding error is looked at.
caption_image_send_unchecked ==
    /\ pc = "unresumed"
    /\ op = "AccountClient::caption_image"
    /\ \E encoded \in serde_qs_to_string(
            RequestAuthWrapper(arg[1], account[1].username, account[1].password)) :
        IF encoded.ok
        THEN /\ wire' = Some(Request("POST", "https://api.imgflip.com/caption_image",
                                     Some("application/x-www-form-urlencoded"),
                                     encoded.body))
             /\ events' = events \o <<"encode_ok", "send">>
             /\ pc' = "awaitSend"
             /\ UNCHANGED <<arg, result, nresults>>
        ELSE /\ Return(Error_SerdeQs, <<"send", "encode_err">>)
    /\ UNCHANGED <<op, resp>>
    /\ UNCHANGED <<builderVars, clientVars>>

\* caption_image up to send().await: the body is encoded first (`?` returns
\* the encoding error), then the POST is handed to the transport.
caption_image_send ==
    /\ pc = "unresumed"
    /\ op = "AccountClient::caption_image"
    /\ \E encoded \in serde_qs_to_string(
            RequestAuthWrapper(arg[1], account[1].username, account[1].password)) :
        IF encoded.ok
        THEN /\ wire' = Some(Request("POST", "https://api.imgflip.com/caption_image",
                                     Some("application/x-www-form-urlencoded"),
                                     encoded.body))
             /\ events' = events \o <<"encode_ok", "send">>
             /\ pc' = "awaitSend"
             /\ UNCHANGED <<arg, result, nresults>>
        ELSE /\ Return(Error_SerdeQs, <<"encode_err">>)
    /\ UNCHANGED <<op, resp>>
    /\ UNCHANGED <<builderVars, clientVars>>

\* The number of times `step` occurs in `steps`.
Count(steps, step) == Cardinality({i \in 1..Len(steps) : steps[i] = step})

\* A faulty variant: a failed send is tried once more.
send_await_retry ==
    /\ pc = "awaitSend"
    /\ \/ /\ Count(events, "send") < 2
          /\ events' = events \o <<"send_err", "send">>
          /\ UNCHANGED <<pc, arg, wire, resp, result, nresults>>
       \/ /\ Return(Error_Reqwest("send"), <<"send_err">>)
          /\ UNCHANGED resp
       \/ \E status \in Statuses, body \in Bodies :
            /\ resp' = Some([status |-> status, body |-> body])
            /\ IF error_for_status(status)
               THEN Return(Error_Reqwest("status"), <<"response", "status_err">>)
               ELSE /\ pc' = "awaitJson"
                    /\ events' = events \o <<"response", "status_ok">>
                    /\ arg' = None /\ wire' = None
                    /\ UNCHANGED <<result, nresults>>
    /\ UNCHANGED op
    /\ UNCHANGED <<builderVars, clientVars>>

\* send().await? and error_for_status()?: the transport fails, or a response
\* arrives and its status is looked at; json() is started only past both.
send_await ==
    /\ pc = "awaitSend"
    /\ \/ /\ Return(Error_Reqwest("send"), <<"send_err">>)
          /\ UNCHANGED resp
       \/ \E status \in Statuses, body \in Bodies :
            /\ resp' = Some([status |-> status, body |-> body])
            /\ IF error_for_status(status)
               THEN Return(Error_Reqwest("status"), <<"response", "status_err">>)
               ELSE /\ pc' = "awaitJson"
                    /\ events' = events \o <<"response", "status_ok">>
                    /\ arg' = None /\ wire' = None
                    /\ UNCHANGED <<result, nresults>>
    /\ UNCHANGED op
    /\ UNCHANGED <<builderVars, clientVars>>

\* json::<Response<T>>() on a body that was read, then convert() and, in
\* client_memes, map(|r| r.memes).
json_convert(operation, body) ==
    LET r == Deserialize_Response(PayloadType(operation), body)
    IN  IF r = None THEN Error_Reqwest("decode")
        ELSE IF operation = "AccountClient::caption_image"
        THEN Response_convert(r[1])
        ELSE Result_map_memes(Response_convert(r[1]))

\* json().await?: reading the body fails, or the body is read and decoded.
json_await ==
    /\ pc = "awaitJson"
    /\ \/ Return(Error_Reqwest("body"), <<"body_err">>)
       \/ LET r == json_convert(op, resp[1].body)
          IN  Return(r, <<"json",
                          IF r.kind = "Reqwest" THEN "decode_err" ELSE "convert">>)
    /\ UNCHANGED <<op, resp>>
    /\ UNCHANGED <<builderVars, clientVars>>

\* A built value goes out of scope in the caller.
DropBuilt ==
    /\ builtBox # None \/ builtReq # None
    /\ boxb = None /\ reqb = None
    /\ builtBox' = None /\ builtReq' = None
    /\ boxArg' = "" /\ boxLog' = <<>> /\ reqArg' = "" /\ reqLog' = <<>>
    /\ UNCHANGED <<boxb, reqb>>
    /\ UNCHANGED <<clientVars, callVars>>

Init ==
    /\ boxb = None /\ boxArg = "" /\ boxLog = <<>> /\ builtBox = None
    /\ reqb = None /\ reqArg = "" /\ reqLog = <<>> /\ builtReq = None
    /\ client = None /\ account = None /\ newArgs = None
    /\ pc = "idle" /\ op = "none" /\ arg = None /\ wire = None /\ resp = None
    /\ result = None /\ events = <<>> /\ nresults = 0

NextBuilder ==
    \/ BoxNew \/ BoxDimension \/ BoxColor \/ BoxOutlineColor \/ BoxBuild
    \/ ReqNew \/ ReqFont \/ ReqMaxFontSize \/ ReqCaptionBox \/ ReqBuild
    \/ DropBuilt

SpecBuilder == Init /\ [][NextBuilder]_vars

Next ==
    \/ Client_new \/ AccountClient_new
    \/ Client_memes \/ AccountClient_memes \/ AccountClient_caption_image
    \/ client_memes_send \/ caption_image_send
    \/ send_await \/ json_await

Spec == Init /\ [][Next]_vars

(***************************************************************************)
(* Properties.                                                             *)
(***************************************************************************)
CaptionOp == "AccountClient::caption_image"

\* The current call has returned, and its response body was read and given
\* to the decoder.
Decoded == pc = "idle" /\ resp # None /\ Count(events, "json") = 1

IsJsonBool(field) == field \in {Some("true"), Some("false")}

IsJsonString(field) == field # None /\ field[1].string

\* The payload the `data` field holds for type T, None when it holds none.
UsableData(T, body) ==
    IF body.data = None THEN None ELSE Deserialize_T(T, body.data[1])

\* What a call of `operation` returns for the decoded payload `data`.
OkOf(operation, data) ==
    IF operation = CaptionOp THEN Ok(data)
    ELSE Ok([type |-> "Vec<MemeTemplate>", memes |-> data.memes,
             url |-> "", page_url |-> ""])

FailureEnvelope(T, body) ==
    /\ body.object
    /\ IsJsonBool(body.success)
    /\ IsJsonString(body.error_message)
    /\ UsableData(T, body) = None

\* C1: a decoded body of the failure shape (a boolean `success`, a string
\* `error_message` X, no usable `data`) makes memes() and caption_image()
\* return Error::ApiError(X) with X verbatim, never another error or Ok.
C1_FailureEnvelopeIsApiError ==
    (Decoded /\ FailureEnvelope(PayloadType(op), resp[1].body))
        => result = Some(Error_ApiError(resp[1].body.error_message[1].str))

C1_Witness ==
    /\ Decoded
    /\ op = CaptionOp
    /\ FailureEnvelope(PayloadType(op), resp[1].body)
    /\ resp[1].body.success = Some("false")
    /\ resp[1].body.error_message = Some(JsonString("No texts specified"))
    /\ result[1].kind = "ApiError"

\* C2: the variant is chosen by shape, success shape first: with either
\* value of `success`, a body whose `data` matches T yields Ok of that
\* payload (also when `error_message` is present), and a body without a
\* matching `data` but with a string `error_message` yields the API error.
C2_ShapeDecidesVariant ==
    (Decoded /\ resp[1].body.object /\ IsJsonBool(resp[1].body.success))
        => LET body == resp[1].body
               data == UsableData(PayloadType(op), body)
           IN  /\ data # None => result = Some(OkOf(op, data[1]))
               /\ (data = None /\ IsJsonString(body.error_message))
                    => result = Some(Error_ApiError(body.error_message[1].str))

C2_Witness ==
    /\ Decoded
    /\ resp[1].body.object
    /\ resp[1].body.success = Some("false")
    /\ UsableData(PayloadType(op), resp[1].body) # None
    /\ IsJsonString(resp[1].body.error_message)
    /\ result[1].kind = "Ok"

\* C3: a decoded body with neither a `data` nor an `error_message` field
\* makes the call return the decode error (Error::Reqwest from json()),
\* not the API error and not Ok.
C3_NeitherFieldIsDecodeError ==
    (Decoded /\ (~resp[1].body.object
                 \/ (resp[1].body.data = None /\ resp[1].body.error_message = None)))
        => result = Some(Error_Reqwest("decode"))

C3_Witness ==
    /\ Decoded
    /\ resp[1].body = JsonBody(TRUE, Some("true"), None, None)
    /\ result[1].kind = "Reqwest"

Is2xx(status) == status >= 200 /\ status <= 299

\* C4 as stated: a response with a non-2xx status makes the call return a
\* transport error without the decoding step being reached.
C4_Non2xxNeverDecoded ==
    (pc = "idle" /\ resp # None /\ ~Is2xx(resp[1].status))
        => /\ result[1].kind = "Reqwest"
           /\ result[1].cause \in {"status", "body"}
           /\ Count(events, "json") = 0

\* C4 amended: a response with a 4xx or 5xx status makes the call return
\* the transport error without the decoding step being reached, whatever
\* the body holds.
C4_ErrorStatusNeverDecoded ==
    (pc = "idle" /\ resp # None /\ resp[1].status >= 400 /\ resp[1].status <= 599)
        => /\ result = Some(Error_Reqwest("status"))
           /\ Count(events, "json") = 0

C4_Witness ==
    /\ pc = "idle" /\ resp # None
    /\ resp[1].status = 404
    /\ Deserialize_Response(PayloadType(op), resp[1].body) # None
    /\ result = Some(Error_Reqwest("status"))

\* C5: in caption_image() the body is encoded before anything is sent, and
\* a failed encoding returns Error::SerdeQs with no request sent.
C5_EncodeBeforeSend ==
    /\ \A i \in 1..Len(events) :
        (op = CaptionOp /\ events[i] = "send")
            => \E j \in 1..(i - 1) : events[j] = "encode_ok"
    /\ Count(events, "encode_err") > 0
        => /\ Count(events, "send") = 0
           /\ wire = None
           /\ pc = "idle"
           /\ result = Some(Error_SerdeQs)

C5_Witness ==
    /\ op = CaptionOp
    /\ events = <<"encode_err">>
    /\ result = Some(Error_SerdeQs)

\* The state in which caption_image has handed its request to the transport.
CaptionSent == op = CaptionOp /\ pc = "awaitSend" /\ wire # None /\ arg # None

Keys(body) == {body[p][1] : p \in 1..Len(body)}

\* How many pairs of `body` have the key `key`.
KeyCount(body, key) == Cardinality({p \in 1..Len(body) : body[p][1] = key})

BoxFields == {"text", "x", "y", "width", "height", "color", "outline_color"}

\* The text of a set field of a caption box.
FieldText(b, field) ==
    IF field \in {"text"} THEN b[field]
    ELSE IF field \in {"color", "outline_color"} THEN b[field][1]
    ELSE to_string_u32(b[field][1])

\* The field=value pairs of box b.
FieldsOfBox(b) ==
    {<<f, FieldText(b, f)>> : f \in {g \in BoxFields : g = "text" \/ b[g] # None}}

\* The field=value pairs the body holds under boxes[index].
GroupOf(body, index) ==
    {<<body[p][1][3], body[p][2]>> :
        p \in {q \in 1..Len(body) :
                /\ Len(body[q][1]) = 3
                /\ body[q][1][1] = "boxes"
                /\ body[q][1][2] = index}}

\* C6: the body of a request with N boxes holds exactly the groups
\* boxes[0]..boxes[N-1], group i holding the fields of the i-th box, in
\* sequence order.
C6_BoxesEncodedInOrder ==
    CaptionSent
        => LET body == wire[1].body
               boxes == arg[1].boxes
               N == Len(boxes)
           IN  /\ {k[2] : k \in {key \in Keys(body) : key[1] = "boxes"}}
                    = {to_string_u32(i - 1) : i \in 1..N}
               /\ \A key \in Keys(body) : key[1] = "boxes" => Len(key) = 3
               /\ \A i \in 1..N :
                    GroupOf(body, to_string_u32(i - 1)) = FieldsOfBox(boxes[i])
               /\ \A p, q \in 1..Len(body) :
                    (/\ p < q
                     /\ body[p][1][1] = "boxes"
                     /\ body[q][1][1] = "boxes")
                        => \E i, j \in 1..N :
                            /\ i <= j
                            /\ body[p][1][2] = to_string_u32(i - 1)
                            /\ body[q][1][2] = to_string_u32(j - 1)

C6_Witness ==
    /\ CaptionSent
    /\ arg[1].boxes = <<Box2, Box1>>
    /\ GroupOf(wire[1].body, "0") = FieldsOfBox(Box2)
    /\ GroupOf(wire[1].body, "1") = FieldsOfBox(Box1)

\* C7: an optional field left unset (x, y, width, height, color,
\* outline_color of a box; font, max_font_size of the request) has no key
\* in the body, and one that was set has exactly one.
C7_UnsetOptionalsHaveNoKey ==
    CaptionSent
        => LET body == wire[1].body
               request == arg[1]
           IN  /\ \A i \in 1..Len(request.boxes) :
                    \A f \in BoxFields \ {"text"} :
                        KeyCount(body, <<"boxes", to_string_u32(i - 1), f>>)
                            = IF request.boxes[i][f] = None THEN 0 ELSE 1
               /\ KeyCount(body, <<"font">>)
                    = IF request.font = None THEN 0 ELSE 1
               /\ KeyCount(body, <<"max_font_size">>)
                    = IF request.max_font_size = None THEN 0 ELSE 1

C7_Witness ==
    /\ CaptionSent
    /\ arg[1].font = None
    /\ arg[1].max_font_size = Some(42)
    /\ arg[1].boxes = <<Box2>>
    /\ KeyCount(wire[1].body, <<"boxes", "0", "color">>) = 1
    /\ KeyCount(wire[1].body, <<"boxes", "0", "outline_color">>) = 0

TopLevelKeys ==
    {"template_id", "font", "max_font_size", "boxes", "username", "password"}

\* C8: caption_image() writes `username` and `password`, as given to
\* AccountClient::new, as top-level keys beside the request's own keys,
\* and leaves the client's credentials as they were.
C8_CredentialsMergedAtTopLevel ==
    /\ account # None
        => account[1] = [username |-> newArgs[1][1], password |-> newArgs[1][2]]
    /\ CaptionSent
        => LET body == wire[1].body
           IN  /\ KeyCount(body, <<"username">>) = 1
               /\ KeyCount(body, <<"password">>) = 1
               /\ KeyCount(body, <<"template_id">>) = 1
               /\ \A p \in 1..Len(body) :
                    /\ body[p][1][1] \in TopLevelKeys
                    /\ body[p][1] = <<"username">> => body[p][2] = newArgs[1][1]
                    /\ body[p][1] = <<"password">> => body[p][2] = newArgs[1][2]
                    /\ body[p][1] = <<"template_id">>
                        => body[p][2] = arg[1].template_id
               /\ arg[1].font # None => KeyCount(body, <<"font">>) = 1
               /\ arg[1].max_font_size # None
                    => KeyCount(body, <<"max_font_size">>) = 1
               /\ arg[1].boxes # <<>> => KeyCount(body, <<"boxes", "0", "text">>) = 1

C8_Witness ==
    /\ CaptionSent
    /\ newArgs = Some(<<"alice", "hunter2">>)
    /\ arg[1].font = Some("Arial")
    /\ arg[1].boxes = <<Box1>>
    /\ wire[1].body[Len(wire[1].body)] = <<<<"password">>, "hunter2">>

\* The index of the last call of setter `name` in `log`, 0 when there is none.
LastCall(log, name) ==
    LET S == {i \in 1..Len(log) : log[i].op = name}
    IN  IF S = {} THEN 0 ELSE CHOOSE i \in S : \A j \in S : j <= i

\* The box that new(text) followed by the setter calls of `log` stands for.
BoxOfCalls(text, log) ==
    LET d == LastCall(log, "dimension")
        c == LastCall(log, "color")
        o == LastCall(log, "outline_color")
    IN  [text |-> text,
         x |-> IF d = 0 THEN None ELSE Some(log[d].n[1]),
         y |-> IF d = 0 THEN None ELSE Some(log[d].n[2]),
         width |-> IF d = 0 THEN None ELSE Some(log[d].n[3]),
         height |-> IF d = 0 THEN None ELSE Some(log[d].n[4]),
         color |-> IF c = 0 THEN None ELSE Some(log[c].s),
         outline_color |-> IF o = 0 THEN None ELSE Some(log[o].s)]

IsCaptionBoxCall(call) == call.op = "caption_box"

\* The request that new(template_id) followed by the calls of `log` stands for.
RequestOfCalls(template_id, log) ==
    LET f == LastCall(log, "font")
        m == LastCall(log, "max_font_size")
        adds == SelectSeq(log, IsCaptionBoxCall)
    IN  [template_id |-> template_id,
         font |-> IF f = 0 THEN None ELSE Some(log[f].s),
         max_font_size |-> IF m = 0 THEN None ELSE Some(log[m].n),
         boxes |-> [i \in 1..Len(adds) |-> adds[i].box]]

\* C9: after new and any setter calls, build() succeeds and yields the
\* required field given to new, every optional field never set absent,
\* every optional field set holding the value of the last call that set
\* it, and the boxes in the order of the caption_box calls.
C9_BuildYieldsLastSetValues ==
    /\ boxb # None => ENABLED BoxBuild
    /\ reqb # None => ENABLED ReqBuild
    /\ builtBox # None => builtBox[1] = BoxOfCalls(boxArg, boxLog)
    /\ builtReq # None => builtReq[1] = RequestOfCalls(reqArg, reqLog)

C9_Witness ==
    /\ builtReq # None
    /\ reqArg = "61580"
    /\ reqLog = <<ReqCall("font", 0, "Arial", Box1),
                  ReqCall("max_font_size", 42, "", Box1),
                  ReqCall("caption_box", 0, "", Box1),
                  ReqCall("caption_box", 0, "", Box2)>>
    /\ builtReq[1] = [template_id |-> "61580", font |-> Some("Arial"),
                      max_font_size |-> Some(42), boxes |-> <<Box1, Box2>>]

ErrorSteps == {"encode_err", "send_err", "status_err", "body_err", "decode_err"}

====
